---- MODULE Spec2Model ----
(***************************************************************************)
(* Manus-Pro dashboard: the activity feed (DashboardContent), the computer *)
(* view with its playback controls (ComputerView) and the terminal overlay *)
(* of the dashboard page (DashboardPage), as one state machine over their  *)
(* React state; and the AIService component, which none of them renders,   *)
(* as a second state machine over its own state.                           *)
(*                                                                         *)
(* A text is a sequence of string chunks: typed input is a sequence of     *)
(* single characters, a literal of the source is one chunk.                *)
(***************************************************************************)
EXTENDS Integers, Sequences, FiniteSets, TLC

VARIABLES isLive, progress, activities, message, commandOutput, command,
          showTerminal, fileContent, lastOp, submitted,
          isLoading, error, calls, onResultCalls

\* the state of the dashboard's components
dashboardVars == <<isLive, progress, activities, message, commandOutput,
                   command, showTerminal, fileContent, lastOp, submitted>>

\* the state of AIService: its two useState variables, where each call of
\* generateResponse stands, and the calls made of the onResult prop
aiVars == <<isLoading, error, calls, onResultCalls>>

vars == <<isLive, progress, activities, message, commandOutput, command,
          showTerminal, fileContent, lastOp, submitted,
          isLoading, error, calls, onResultCalls>>

----------------------------------------------------------------------------
(* Bounds of the model *)

\* appends handleSendMessage may add to the initial log
MaxSends == 2
\* commands the terminal may run
MaxCommands == 2
\* distinct millisecond readings of Date.now() after the first
MaxClock == 1
\* calls of generateResponse
MaxCalls == 3

\* Date.now() is milliseconds since the epoch: far above the literal ids 1..11
EpochBase == 1000

Timestamps == EpochBase .. (EpochBase + MaxClock)

\* what a user may have typed into the message input: blank, or text after
\* a leading space
MessageInputs == { <<" ">>, <<" ", "a">> }

\* what a user may have typed into the command input of the terminal
CommandInputs == { <<"a">>, <<" ", "a">> }

\* what a user may leave in the textarea of the file view
FileInputs == { <<>>, <<"a">> }

----------------------------------------------------------------------------
(* Text helpers *)

WhiteSpace == {" "}

RECURSIVE TrimStart(_)
TrimStart(s) ==
    IF s # <<>> /\ Head(s) \in WhiteSpace THEN TrimStart(Tail(s)) ELSE s

RECURSIVE TrimEnd(_)
TrimEnd(s) ==
    IF s # <<>> /\ s[Len(s)] \in WhiteSpace
    THEN TrimEnd(SubSeq(s, 1, Len(s) - 1))
    ELSE s

\* String.prototype.trim
Trim(s) == TrimEnd(TrimStart(s))

\* truthiness of a JavaScript string: non-empty
Truthy(s) == s # <<>>

\* the template literal `$ ${cmd}`
Prompt(cmd) == <<"$", " ">> \o cmd

Executed == <<"Command executed successfully">>

----------------------------------------------------------------------------
(* Activity records; an absent field reads as undefined *)

Undefined == "undefined"

Activity(id, text, status, type, cmd, filename, path) ==
    [id |-> id, text |-> text, status |-> status, type |-> type,
     command |-> cmd, filename |-> filename, path |-> path]

InitialActivities ==
    << Activity(1, <<"Starting to extract and analyze resumes for RL algorithm engineer candidates.">>,
                "completed", "command",
                "mkdir -p resumes && unzip -o upload/resumes_1_to_10.zip -d resumes",
                Undefined, Undefined),
       Activity(2, <<"Creating a todo list to track resume analysis progress.">>,
                "completed", "file", Undefined, "todo.md", Undefined),
       Activity(3, <<"Create candidate review task list">>,
                "completed", "task", Undefined, Undefined, Undefined),
       Activity(4, <<"Starting to read and analyze each resume, focusing on RL expertise and project experience.">>,
                "completed", "browse", Undefined, Undefined,
                "file:///home/ubuntu/resumes/resume_1.pdf"),
       Activity(5, <<"Read and analyze individual resumes">>,
                "in-progress", "task", Undefined, Undefined, Undefined),
       Activity(6, <<"Continuing to read and analyze resumes, focusing on RL expertise and project experience.">>,
                "in-progress", "view", Undefined, Undefined, Undefined),
       Activity(7, <<"Continuing to read and analyze resumes, troubleshooting PDF viewing issues.">>,
                "in-progress", "scroll", Undefined, Undefined, Undefined),
       Activity(8, <<"Analyzing resume content for candidate 1, focusing on RL-related experience.">>,
                "in-progress", "scroll-top", Undefined, Undefined, Undefined),
       Activity(9, <<"Analyzing resume content for candidate 1 (Amelia Martin), focusing on RL-related experience.">>,
                "in-progress", "file", Undefined,
                "candidate_profiles/amelia_martin.md", Undefined),
       Activity(10, <<"Continuing to analyze remaining resumes, focusing on RL expertise and project experience.">>,
                "in-progress", "edit", Undefined, "todo.md", Undefined),
       Activity(11, <<"Continuing to analyze remaining resumes, focusing on RL expertise and project experience.">>,
                "thinking", "thinking", Undefined, Undefined, Undefined) >>

InitialLength == Len(InitialActivities)

\* the initial todo.md text of the dashboard page, one literal
InitialFileContent == <<"# Resume Analysis for RL Algorithm Engineer Candidates ...">>

currentFile == "todo.md"

\* the null of AIService.error
NoError == "null"

FailureMessage == "Failed to generate response. Please try again."

\* the texts a generateText request may resolve to
Texts == {"text1", "text2"}

----------------------------------------------------------------------------
(* Initial state: the useState initialisers *)

Init ==
    /\ isLive = TRUE
    /\ progress = 80
    /\ activities = InitialActivities
    /\ message = <<>>
    /\ commandOutput = <<>>
    /\ command = <<>>
    /\ showTerminal = FALSE
    /\ fileContent = InitialFileContent
    /\ lastOp = "init"
    /\ submitted = <<>>
    /\ isLoading = FALSE
    /\ error = NoError
    /\ calls = [c \in 1..MaxCalls |-> "idle"]
    /\ onResultCalls = <<>>

----------------------------------------------------------------------------
(* DashboardContent: the message input and handleSendMessage *)

\* a record that keeps the trimmed text
UserMessageTrimmed(now, text) ==
    Activity(now, Trim(text), "completed", "user-message",
             Undefined, Undefined, Undefined)

\* the record handleSendMessage builds
UserMessage(now, text) ==
    Activity(now, text, "completed", "user-message", Undefined, Undefined, Undefined)

\* a log that puts the new record first
AppendActivityNewestFirst(prev, record) == <<record>> \o prev

\* the updater (prev) => [...prev, record]
AppendActivity(prev, record) == prev \o <<record>>

\* Date.now() never reads below an earlier reading
LastNow(log) ==
    IF Len(log) > InitialLength THEN log[Len(log)].id ELSE EpochBase

\* onChange of the message input
SetMessage(v) ==
    /\ message' = v
    /\ lastOp' = "setMessage"
    /\ UNCHANGED <<isLive, progress, activities, commandOutput, command,
                   showTerminal, fileContent, submitted>>
    /\ UNCHANGED aiVars

\* a submit that moves the progress bar to the tip whatever the mode
HandleSendMessageFollow(now) ==
    /\ now >= LastNow(activities)
    /\ Truthy(Trim(message)) => Len(activities) < InitialLength + MaxSends
    /\ IF Truthy(Trim(message))
       THEN /\ activities' = AppendActivity(activities, UserMessage(now, message))
            /\ message' = <<>>
            /\ progress' = 100
       ELSE UNCHANGED <<activities, message, progress>>
    /\ UNCHANGED aiVars
    /\ lastOp' = IF Truthy(Trim(message))
                 THEN "handleSendMessage"
                 ELSE "handleSendMessage(blank)"
    /\ UNCHANGED <<isLive, commandOutput, command, showTerminal,
                   fileContent, submitted>>

\* onSubmit of the message form
HandleSendMessage(now) ==
    /\ now >= LastNow(activities)
    /\ Truthy(Trim(message)) => Len(activities) < InitialLength + MaxSends
    /\ IF Truthy(Trim(message))
       THEN /\ activities' = AppendActivity(activities, UserMessage(now, message))
            /\ message' = <<>>
       ELSE UNCHANGED <<activities, message>>
    /\ UNCHANGED aiVars
    /\ lastOp' = IF Truthy(Trim(message))
                 THEN "handleSendMessage"
                 ELSE "handleSendMessage(blank)"
    /\ UNCHANGED <<isLive, progress, commandOutput, command, showTerminal,
                   fileContent, submitted>>

----------------------------------------------------------------------------
(* DashboardPage: the terminal overlay *)

\* a transcript that keeps only the last command
ExecuteCommandReplace(prev, cmd) == <<Prompt(cmd), Executed>>

\* the updater of executeCommand
ExecuteCommand(prev, cmd) == prev \o <<Prompt(cmd), Executed>>

\* the terminal toggle button
ToggleTerminal ==
    /\ showTerminal' = ~showTerminal
    /\ lastOp' = "toggleTerminal"
    /\ UNCHANGED <<isLive, progress, activities, message, commandOutput,
                   command, fileContent, submitted>>
    /\ UNCHANGED aiVars

\* the close button of the overlay, rendered while the overlay is shown
CloseTerminal ==
    /\ showTerminal
    /\ showTerminal' = FALSE
    /\ lastOp' = "closeTerminal"
    /\ UNCHANGED <<isLive, progress, activities, message, commandOutput,
                   command, fileContent, submitted>>
    /\ UNCHANGED aiVars

\* onChange of the command input, rendered while the overlay is shown
SetCommand(v) ==
    /\ showTerminal
    /\ command' = v
    /\ lastOp' = "setCommand"
    /\ UNCHANGED <<isLive, progress, activities, message, commandOutput,
                   showTerminal, fileContent, submitted>>
    /\ UNCHANGED aiVars

\* onSubmit of the command form; submitted records the commands it ran
HandleCommandSubmit ==
    /\ showTerminal
    /\ Truthy(Trim(command)) => Len(submitted) < MaxCommands
    /\ IF Truthy(Trim(command))
       THEN /\ commandOutput' = ExecuteCommand(commandOutput, command)
            /\ submitted' = Append(submitted, command)
            /\ command' = <<>>
       ELSE UNCHANGED <<commandOutput, submitted, command>>
    /\ UNCHANGED aiVars
    /\ lastOp' = IF Truthy(Trim(command))
                 THEN "handleCommandSubmit"
                 ELSE "handleCommandSubmit(blank)"
    /\ UNCHANGED <<isLive, progress, activities, message, showTerminal,
                   fileContent>>

----------------------------------------------------------------------------
(* ComputerView: the textarea and the playback controls *)

\* onChange of the textarea: setFileContent(e.target.value)
SetFileContent(v) ==
    /\ fileContent' = v
    /\ lastOp' = "setFileContent"
    /\ UNCHANGED <<isLive, progress, activities, message, commandOutput,
                   command, showTerminal, submitted>>
    /\ UNCHANGED aiVars

\* the Pause button, rendered while live
Pause ==
    /\ isLive
    /\ isLive' = FALSE
    /\ lastOp' = "Pause"
    /\ UNCHANGED <<progress, activities, message, commandOutput, command,
                   showTerminal, fileContent, submitted>>
    /\ UNCHANGED aiVars

\* the Play button, rendered while not live
Play ==
    /\ ~isLive
    /\ isLive' = TRUE
    /\ lastOp' = "Play"
    /\ UNCHANGED <<progress, activities, message, commandOutput, command,
                   showTerminal, fileContent, submitted>>
    /\ UNCHANGED aiVars

\* a button without an onClick: the click changes no state
ClickWithoutHandler(name) ==
    /\ lastOp' = name
    /\ UNCHANGED <<isLive, progress, activities, message, commandOutput,
                   command, showTerminal, fileContent, submitted>>
    /\ UNCHANGED aiVars

SkipBack == ClickWithoutHandler("SkipBack")

ChevronLeft == ClickWithoutHandler("ChevronLeft")

ChevronRight == ClickWithoutHandler("ChevronRight")

SkipForward == ClickWithoutHandler("SkipForward")

----------------------------------------------------------------------------

Next ==
    \/ \E v \in MessageInputs : SetMessage(v)
    \/ \E now \in Timestamps : HandleSendMessage(now)
    \/ ToggleTerminal
    \/ CloseTerminal
    \/ \E v \in CommandInputs : SetCommand(v)
    \/ HandleCommandSubmit
    \/ \E v \in FileInputs : SetFileContent(v)
    \/ Pause
    \/ Play
    \/ SkipBack
    \/ ChevronLeft
    \/ ChevronRight
    \/ SkipForward

Spec == Init /\ [][Next]_vars

----------------------------------------------------------------------------
(* AIService.generateResponse: a call runs to its await, and resumes when  *)
(* the generateText request settles                                         *)

\* the call up to the await: setIsLoading(true), setError(null)
GenerateResponse(c) ==
    /\ calls[c] = "idle"
    /\ \A d \in 1..(c - 1) : calls[d] # "idle"
    /\ isLoading' = TRUE
    /\ error' = NoError
    /\ calls' = [calls EXCEPT ![c] = "awaiting"]
    /\ UNCHANGED onResultCalls
    /\ UNCHANGED dashboardVars

\* the request resolves: onResult(text), which may throw into the catch,
\* then the finally
Resolve(c, text, throws) ==
    /\ calls[c] = "awaiting"
    /\ onResultCalls' = Append(onResultCalls, [call |-> c, text |-> text])
    /\ error' = IF throws THEN FailureMessage ELSE error
    /\ isLoading' = FALSE
    /\ calls' = [calls EXCEPT ![c] = "resolved"]
    /\ UNCHANGED dashboardVars

\* a rejection that skips the finally
RejectWithoutFinally(c) ==
    /\ calls[c] = "awaiting"
    /\ error' = FailureMessage
    /\ calls' = [calls EXCEPT ![c] = "rejected"]
    /\ UNCHANGED <<isLoading, onResultCalls>>
    /\ UNCHANGED dashboardVars

\* the request rejects: the catch, then the finally
Reject(c) ==
    /\ calls[c] = "awaiting"
    /\ error' = FailureMessage
    /\ isLoading' = FALSE
    /\ calls' = [calls EXCEPT ![c] = "rejected"]
    /\ UNCHANGED onResultCalls
    /\ UNCHANGED dashboardVars

NextAI ==
    \/ \E c \in 1..MaxCalls : GenerateResponse(c)
    \/ \E c \in 1..MaxCalls, text \in Texts, throws \in BOOLEAN :
          Resolve(c, text, throws)
    \/ \E c \in 1..MaxCalls : Reject(c)

SpecAI == Init /\ [][NextAI]_vars

----------------------------------------------------------------------------
(* Views derived from the state *)

Min(a, b) == IF a < b THEN a ELSE b

Max(a, b) == IF a > b THEN a ELSE b

IsPrefix(s, t) == Len(s) <= Len(t) /\ SubSeq(t, 1, Len(s)) = s

\* the line under the text of an activity, by its type
Detail(a) ==
    CASE a.type = "command"      -> <<a.command>>
      [] a.type = "file"         -> <<"Creating file ", a.filename>>
      [] a.type = "browse"       -> <<"Browsing ", a.path>>
      [] a.type = "view"         -> <<"Viewing the page">>
      [] a.type = "scroll"       -> <<"Scrolling down">>
      [] a.type = "scroll-top"   -> <<"Scrolling to top">>
      [] a.type = "edit"         -> <<"Editing file ", a.filename>>
      [] a.type = "thinking"     -> <<"Thinking">>
      [] a.type = "user-message" -> a.text
      [] OTHER                   -> <<>>

\* activities.map: one element per record of the log, keyed by its id
Feed(log) ==
    [i \in 1..Len(log) |->
        [key |-> log[i].id, text |-> log[i].text, detail |-> Detail(log[i])]]

\* the width of the progress bar is progress percent of the whole: the log
\* index the bar stands at
Position == (progress * Len(activities)) \div 100

----------------------------------------------------------------------------
(* Claims *)

\* C1: live-follow: a step that appends to the activity log and ends in
\* live mode ends with the playback position at the log length, the
\* progress bar at 100%.
LiveFollow ==
    [][(isLive' /\ Len(activities') > Len(activities))
          => (progress' = 100 /\ Position' = Len(activities'))]_vars

\* C2: mode lifecycle: a click on SkipBack, ChevronLeft or ChevronRight
\* leaves the mode paused, and the mode goes from paused to live only by
\* the Play control.
ModeLifecycle ==
    [][/\ lastOp' \in {"SkipBack", "ChevronLeft", "ChevronRight"} => ~isLive'
       /\ (~isLive /\ isLive') => lastOp' = "Play"]_vars

\* C3: monotonic prefix: the rendered activity feed is exactly the records
\* with sequence key at most the position, in log order.
MonotonicPrefix ==
    Feed(activities) = Feed(SelectSeq(activities, LAMBDA a : a.id <= Position))

\* C4: sequence numbering: the i-th record of the log has sequence key i,
\* so no two records share a key.
SequenceNumbering ==
    \A i \in 1..Len(activities) : activities[i].id = i

\* C5: append-only history: over every step the log before is a prefix of
\* the log after; no record is removed, reordered or changed.
AppendOnlyHistory ==
    [][IsPrefix(activities, activities')]_vars

\* C5 witness: a message was sent, a command run, the file edited and the
\* playback paused, with the log grown.
HistoryGrewUnderAllOperations ==
    /\ Len(activities) = InitialLength + 2
    /\ submitted # <<>>
    /\ fileContent # InitialFileContent
    /\ ~isLive

\* C6: step back / step forward: a click on ChevronLeft (ChevronRight)
\* leaves the mode paused and the position one lower (higher), clamped to
\* the range from 0 to the log length.
StepBackStepForward ==
    [][/\ lastOp' = "ChevronLeft"
            => (~isLive' /\ Position' = Max(Position - 1, 0))
       /\ lastOp' = "ChevronRight"
            => (~isLive' /\ Position' = Min(Position + 1, Len(activities)))]_vars

\* C7: resume live: a click on Play while paused leaves the mode live and
\* the position at the log length, the progress bar at 100%.
ResumeLive ==
    [][(~isLive /\ lastOp' = "Play")
          => (isLive' /\ progress' = 100 /\ Position' = Len(activities'))]_vars

\* C8: paused stability: a step that appends to the log while the mode is
\* paused leaves progress unchanged.
PausedStability ==
    [][(~isLive /\ Len(activities') > Len(activities))
          => progress' = progress]_vars

\* C8 witness: handleSendMessage has just appended while paused.
AppendedWhilePaused ==
    /\ ~isLive
    /\ lastOp = "handleSendMessage"
    /\ Len(activities) > InitialLength
    /\ progress = 80

\* C9: derived file view: the shown file content changes only in a step
\* that appends a file-edit record for the current file to the log, and an
\* edit in the textarea is such a step.
DerivedFileView ==
    [][(fileContent' # fileContent \/ lastOp' = "setFileContent")
          => /\ Len(activities') = Len(activities) + 1
             /\ IsPrefix(activities, activities')
             /\ activities'[Len(activities')].type = "edit"
             /\ activities'[Len(activities')].filename = currentFile]_vars

\* does out consist, for each command of cmds in order, of the command's
\* prompt line followed by zero or more output lines
RECURSIVE IsTranscriptOf(_, _)
IsTranscriptOf(out, cmds) ==
    IF cmds = <<>>
    THEN out = <<>>
    ELSE /\ out # <<>>
         /\ Head(out) = Prompt(Head(cmds))
         /\ \E k \in 1..Len(out) :
               IsTranscriptOf(SubSeq(out, k + 1, Len(out)), Tail(cmds))

\* C10: terminal transcript shape: after every step the transcript is, for
\* the submitted commands in order, a prompt line then zero or more output
\* lines each, and the transcript before the step is a prefix of it.
TerminalTranscriptShape ==
    [][/\ IsTranscriptOf(commandOutput', submitted')
       /\ IsPrefix(commandOutput, commandOutput')]_vars

\* C10 witness: two commands were run, the second just now.
TwoCommandsRun ==
    /\ Len(submitted) = 2
    /\ lastOp = "handleCommandSubmit"
    /\ Len(commandOutput) = 4

\* C11: write-back through the log: a terminal submit of a non-blank
\* command appends one command record for it to the activity log, with
\* status pending.
CommandWriteBack ==
    [][lastOp' = "handleCommandSubmit"
          => /\ Len(activities') = Len(activities) + 1
             /\ IsPrefix(activities, activities')
             /\ activities'[Len(activities')].type = "command"
             /\ activities'[Len(activities')].status = "pending"]_vars

\* C12: handleSendMessage: a submit of a blank message leaves the log and
\* the input unchanged; a submit of a non-blank message appends exactly one
\* record at the end of the log, of type user-message, status completed and
\* text the untrimmed input, and empties the input.
SendMessageEffect ==
    [][lastOp' \in {"handleSendMessage", "handleSendMessage(blank)"}
          => IF Trim(message) = <<>>
             THEN activities' = activities /\ message' = message
             ELSE /\ Len(activities') = Len(activities) + 1
                  /\ IsPrefix(activities, activities')
                  /\ activities'[Len(activities')].type = "user-message"
                  /\ activities'[Len(activities')].status = "completed"
                  /\ activities'[Len(activities')].text = message
                  /\ message' = <<>>]_vars

\* C12 witness: a message with a leading space was just sent and the input
\* is empty again.
UntrimmedMessageSent ==
    /\ lastOp = "handleSendMessage"
    /\ Len(activities) = InitialLength + 1
    /\ activities[Len(activities)].text = <<" ", "a">>
    /\ message = <<>>

\* C13: generateResponse: a call starts with error reset to null; a call
\* whose request settles ends with isLoading false; a call whose request
\* fails ends with error the fixed failure message and never invokes
\* onResult.
GenerateResponseSettles ==
    [][\A c \in 1..MaxCalls :
          /\ (calls[c] = "idle" /\ calls'[c] = "awaiting") => error' = NoError
          /\ (calls[c] = "awaiting" /\ calls'[c] \in {"resolved", "rejected"})
                => isLoading' = FALSE
          /\ (calls[c] = "awaiting" /\ calls'[c] = "rejected")
                => error' = FailureMessage
          /\ calls'[c] = "rejected"
                => \A i \in 1..Len(onResultCalls') : onResultCalls'[i].call # c]_vars

\* C13 witness: the first call's request has failed and a later call has
\* succeeded.
FailedThenSucceeded ==
    /\ calls[1] = "rejected"
    /\ calls[2] = "resolved"
    /\ isLoading = FALSE
    /\ error = NoError
    /\ Len(onResultCalls) = 1

====
